---- MODULE Spec2Model ----
(***************************************************************************)
(* Model of src/src/function.ts: the in-memory session registry            *)
(* (connections, messageQueue), the FleekTransport adapter, the session-id *)
(* extraction helper, the SSE framing done by handleSSE / getSSEMessages,  *)
(* and the request router main.                                            *)
(*                                                                         *)
(* JavaScript values are tagged records of one shape (JS), strings are TLA *)
(* strings, a wire body is the sequence of its lines, each line a record   *)
(* [field, value] ("field: value"), the empty line being BlankLine.        *)
(***************************************************************************)
EXTENDS Integers, Sequences, FiniteSets, TLC

VARIABLES connections, messageQueue, isConnected, onMessageCallback,
          serverInitialized, now, inbox, emitted, polled, createdAt,
          invocations, op, resp

vars == <<connections, messageQueue, isConnected, onMessageCallback,
          serverInitialized, now, inbox, emitted, polled, createdAt,
          invocations, op, resp>>

(* ------------------------------ bounds -------------------------------- *)
\* sessions opened, plus messages queued, plus messages delivered to the
\* protocol handler and not answered yet
MaxWork == 3
\* ticks of the clock behind Date.now()
MaxClock == 1

\* the registry, the queue and the handler's inbox can still grow
CanGrow(conns, queue, box) == Len(conns) + Len(queue) + Len(box) < MaxWork

(* --------------------------- JavaScript values ------------------------ *)
Absent == "<absent>"

JS(t, s) ==
  [t |-> t, s |-> s, type |-> Absent, name |-> Absent,
   message |-> Absent, connectionId |-> Absent]

Undefined == JS("undefined", Absent)

Str(s) == JS("string", s)

\* a value JSON.stringify throws on (a cyclic object)
Circular == JS("circular", Absent)

\* faulty variant: only undefined / null count as missing
TruthyNotNull(s) == s # Absent

\* truthiness of an optional string: undefined, null and "" are falsy
Truthy(s) == s # Absent /\ s # ""

(* ------------------------------ requests ------------------------------ *)
\* FleekFunctionParams: path is base ++ "?" ++ name=value&..., query is the
\* optional query map, body the optional body
Params(method, base, search, hasQuery, queryId, body) ==
  [method |-> method,
   path   |-> [base |-> base, search |-> search],
   query  |-> [present |-> hasQuery, connectionId |-> queryId],
   body   |-> body]

NoParams == Params("", "", <<>>, FALSE, Absent, Undefined)

\* percent-decoding done by the URL parser, on the strings of the model
RawOne == "%31"

EncodedName == "connection%49d"

Decode(s) ==
  CASE s = EncodedName -> "connectionId"
    [] s = RawOne      -> "1"
    [] OTHER           -> s

\* params.path.match(/[?&]connectionId=([^&]+)/): the value of the first
\* parameter written literally as connectionId= with at least one character
\* after it
RECURSIVE PathMatchFrom(_, _)
PathMatchFrom(search, i) ==
  IF i > Len(search) THEN Absent
  ELSE IF search[i].name = "connectionId" /\ search[i].value # ""
    THEN search[i].value
  ELSE PathMatchFrom(search, i + 1)

PathMatch(path) == PathMatchFrom(path.search, 1)

\* new URL(...).searchParams.get("connectionId"): the decoded value of the
\* first parameter whose decoded name is connectionId; null when there is none
RECURSIVE SearchParamFrom(_, _)
SearchParamFrom(search, i) ==
  IF i > Len(search) THEN Absent
  ELSE IF Decode(search[i].name) = "connectionId"
    THEN Decode(search[i].value)
  ELSE SearchParamFrom(search, i + 1)

SearchParam(path) == SearchParamFrom(path.search, 1)

\* faulty variant: the body is tried before the query map
getConnectionIdBodyFirst(params) ==
  IF Truthy(PathMatch(params.path)) THEN PathMatch(params.path)
  ELSE IF params.body.t = "object" /\ Truthy(params.body.connectionId)
    THEN params.body.connectionId
  ELSE IF params.query.present /\ Truthy(params.query.connectionId)
    THEN params.query.connectionId
  ELSE IF Truthy(SearchParam(params.path)) THEN SearchParam(params.path)
  ELSE Absent

getConnectionId(params) ==
  IF Truthy(PathMatch(params.path)) THEN PathMatch(params.path)
  ELSE IF params.query.present /\ Truthy(params.query.connectionId)
    THEN params.query.connectionId
  ELSE IF params.body.t = "object" /\ Truthy(params.body.connectionId)
    THEN params.body.connectionId
  ELSE IF Truthy(SearchParam(params.path)) THEN SearchParam(params.path)
  ELSE Absent

(* ------------------------------ responses ----------------------------- *)
\* FleekFunctionResponse.status is optional: 0 stands for "not set"
NoStatus == 0

Line(field, value) == [field |-> field, value |-> value]

BlankLine == Line("", "")

NoJson ==
  [kind |-> "none", error |-> Absent, connectionId |-> Absent,
   activeConnections |-> 0]

Response(status, sse, lines, json) ==
  [status |-> status, sse |-> sse, lines |-> lines, json |-> json]

NoResponse == Response(NoStatus, FALSE, <<>>, NoJson)

(* ------------------------------ framing ------------------------------- *)
\* `${n}` of a number
NumberToString(n) == ToString(n)

\* JSON.stringify of an outbound message: fails on a cyclic value, quotes a
\* string
CanStringify(message) == message.t # "circular"

Stringify(message) == "\"" \o message.s \o "\""

\* "Content-Type: ...", "Cache-Control: ...", "Connection: ...", "\n"
\* joined by "\n": three lines and an empty one
HeaderText ==
  << Line("Content-Type", "text/event-stream"),
     Line("Cache-Control", "no-cache"),
     Line("Connection", "keep-alive"),
     BlankLine >>

\* `event: connected\ndata: {"connectionId":"${connectionId}"}\n\n`
ConnectedData(connectionId) == "{\"connectionId\":\"" \o connectionId \o "\"}"

ConnectedFrame(connectionId) ==
  << Line("event", "connected"),
     Line("data", ConnectedData(connectionId)),
     BlankLine >>

\* faulty variant: the event id is zero-based (lastEventId + index)
MessageFrameZeroBased(eventId, msg) ==
  << Line("id", NumberToString(eventId - 1)),
     Line("event", "message"),
     Line("data", msg),
     BlankLine >>

\* `id: ${eventId}\nevent: message\ndata: ${msg}\n\n`
MessageFrame(eventId, msg) ==
  << Line("id", NumberToString(eventId)),
     Line("event", "message"),
     Line("data", msg),
     BlankLine >>

\* faulty variant: the ping frame carries an id line
PingFrameWithId ==
  << Line("id", "0"), Line("event", "ping"), Line("data", "{}"), BlankLine >>

\* "event: ping\ndata: {}\n\n"
PingFrame ==
  << Line("event", "ping"), Line("data", "{}"), BlankLine >>

\* messages.forEach((msg, index) => response += frame(lastEventId+index+1))
RECURSIVE FrameFrom(_, _, _)
FrameFrom(messages, lastEventId, index) ==
  IF index >= Len(messages) THEN <<>>
  ELSE MessageFrame(lastEventId + index + 1, messages[index + 1])
         \o FrameFrom(messages, lastEventId, index + 1)

FrameMessages(messages, lastEventId) == FrameFrom(messages, lastEventId, 0)

\* response || "event: ping\ndata: {}\n\n"
PollBody(messages, lastEventId) ==
  IF FrameMessages(messages, lastEventId) = <<>> THEN PingFrame
  ELSE FrameMessages(messages, lastEventId)

(* --------------------------- session registry ------------------------- *)
\* faulty variant: the cursor of a new session starts at 1
SSEConnectionStartsAtOne(id) ==
  [id |-> id, messages |-> <<>>, lastEventId |-> 1]

SSEConnection(id) == [id |-> id, messages |-> <<>>, lastEventId |-> 0]

\* Date.now().toString()
NewConnectionId(clock) == NumberToString(clock)

\* connections.find((conn) => conn.id === connectionId): index of the first
\* match, 0 when there is none
RECURSIVE FindFrom(_, _, _)
FindFrom(conns, connectionId, i) ==
  IF i > Len(conns) THEN 0
  ELSE IF conns[i].id = connectionId THEN i
  ELSE FindFrom(conns, connectionId, i + 1)

Find(conns, connectionId) == FindFrom(conns, connectionId, 1)

\* faulty variant: the buffer is read but not emptied
DrainedKeepsBuffer(conn) ==
  [conn EXCEPT !.lastEventId = conn.lastEventId + Len(conn.messages)]

\* faulty variant: the cursor is not advanced
DrainedNoAdvance(conn) == [conn EXCEPT !.messages = <<>>]

\* connection.messages = []; connection.lastEventId += messages.length
Drained(conn) ==
  [conn EXCEPT !.messages = <<>>,
               !.lastEventId = conn.lastEventId + Len(conn.messages)]

\* faulty variant: the message is put at the head of the buffer
PushedAtHead(conn, message) ==
  IF CanStringify(message)
  THEN [conn EXCEPT !.messages = <<Stringify(message)>> \o conn.messages]
  ELSE conn

\* conn.messages.push(JSON.stringify(message)) inside try / catch
Pushed(conn, message) ==
  IF CanStringify(message)
  THEN [conn EXCEPT !.messages = Append(conn.messages, Stringify(message))]
  ELSE conn

\* faulty variant: only the first session gets the message
BroadcastFirstOnly(conns, message) ==
  [i \in 1..Len(conns) |->
     IF i = 1 THEN Pushed(conns[i], message) ELSE conns[i]]

\* connections.forEach((conn) => ...)
Broadcast(conns, message) ==
  [i \in 1..Len(conns) |-> Pushed(conns[i], message)]

(* ------------------------------ handlers ------------------------------ *)
\* what a handler leaves behind: the registry, the handler's inbox, the
\* response, and the index of the session it worked on (0: none)
Outcome(conns, box, idx, response) ==
  [connections |-> conns, inbox |-> box, idx |-> idx, resp |-> response]

ErrorJson(error, connectionId, activeConnections) ==
  [kind |-> "error", error |-> error, connectionId |-> connectionId,
   activeConnections |-> activeConnections]

\* the 400 answer of getSSEMessages and handleMessage
MissingIdResponse ==
  Response(400, FALSE, <<>>,
           ErrorJson("Missing connectionId parameter", Absent, 0))

\* the 404 answer of getSSEMessages and handleMessage
NotFoundResponse(conns, connectionId) ==
  Response(404, FALSE, <<>>,
           ErrorJson("Connection not found", connectionId, Len(conns)))

\* the 500 answer of handleMessage's catch
FailureResponse(errorMessage, connectionId) ==
  Response(500, FALSE, <<>>, ErrorJson(errorMessage, connectionId, 0))

\* the 200 acknowledgment of handleMessage
AckResponse(connectionId) ==
  Response(200, FALSE, <<>>,
           [kind |-> "received", error |-> Absent,
            connectionId |-> connectionId, activeConnections |-> 0])

\* the default route of main
HelpResponse(conns, connectionId) ==
  Response(200, FALSE, <<>>,
           [kind |-> "help", error |-> Absent,
            connectionId |-> IF Truthy(connectionId) THEN connectionId
                             ELSE "none",
            activeConnections |-> Len(conns)])

handleSSE(conns, box, clock) ==
  LET connectionId == NewConnectionId(clock)
      connection   == SSEConnection(connectionId)
  IN Outcome(Append(conns, connection), box, Len(conns) + 1,
             Response(NoStatus, TRUE,
                      HeaderText \o ConnectedFrame(connectionId), NoJson))

getSSEMessages(conns, box, connectionIdArg, params) ==
  LET connectionId == IF Truthy(connectionIdArg) THEN connectionIdArg
                      ELSE getConnectionId(params)
      i == Find(conns, connectionId)
  IN IF ~Truthy(connectionId) THEN Outcome(conns, box, 0, MissingIdResponse)
     ELSE IF i = 0
       THEN Outcome(conns, box, 0, NotFoundResponse(conns, connectionId))
     ELSE Outcome([conns EXCEPT ![i] = Drained(conns[i])], box, i,
                  Response(NoStatus, TRUE,
                           PollBody(conns[i].messages, conns[i].lastEventId),
                           NoJson))

\* body.type && body.name ? body : body.message || body
\* (evaluated on a body that is not undefined)
MessageContent(body) ==
  IF Truthy(body.type) /\ Truthy(body.name) THEN body
  ELSE IF Truthy(body.message) THEN Str(body.message)
  ELSE body

\* faulty variant: the message is forwarded before the session is looked up
handleMessageForwardsFirst(conns, box, hasCallback, body, connectionIdArg, params, throws) ==
  LET connectionId == IF Truthy(connectionIdArg) THEN connectionIdArg
                      ELSE getConnectionId(params)
      i == Find(conns, connectionId)
      forwarded == IF hasCallback /\ body.t # "undefined"
                   THEN Append(box, MessageContent(body)) ELSE box
  IN IF ~Truthy(connectionId) THEN Outcome(conns, box, 0, MissingIdResponse)
     ELSE IF i = 0
       THEN Outcome(conns, forwarded, 0,
                    NotFoundResponse(conns, connectionId))
     ELSE IF body.t = "undefined"
       THEN Outcome(conns, box, i,
                    FailureResponse("Cannot read properties of undefined",
                                    connectionId))
     ELSE IF hasCallback /\ throws
       THEN Outcome(conns, box, i,
                    FailureResponse("handler failure", connectionId))
     ELSE Outcome(conns, forwarded, i, AckResponse(connectionId))

\* faulty variant: a throwing callback is swallowed and acknowledged
handleMessageSwallows(conns, box, hasCallback, body, connectionIdArg, params, throws) ==
  LET connectionId == IF Truthy(connectionIdArg) THEN connectionIdArg
                      ELSE getConnectionId(params)
      i == Find(conns, connectionId)
  IN IF ~Truthy(connectionId) THEN Outcome(conns, box, 0, MissingIdResponse)
     ELSE IF i = 0
       THEN Outcome(conns, box, 0, NotFoundResponse(conns, connectionId))
     ELSE IF body.t = "undefined"
       THEN Outcome(conns, box, i,
                    FailureResponse("Cannot read properties of undefined",
                                    connectionId))
     ELSE Outcome(conns,
                  IF hasCallback /\ ~throws
                  THEN Append(box, MessageContent(body)) ELSE box,
                  i, AckResponse(connectionId))

\* faulty variant: the body is inspected before the session is looked up
handleMessageBodyFirst(conns, box, hasCallback, body, connectionIdArg, params, throws) ==
  LET connectionId == IF Truthy(connectionIdArg) THEN connectionIdArg
                      ELSE getConnectionId(params)
      i == Find(conns, connectionId)
  IN IF ~Truthy(connectionId) THEN Outcome(conns, box, 0, MissingIdResponse)
     ELSE IF body.t = "undefined"
       THEN Outcome(conns, box, i,
                    FailureResponse("Cannot read properties of undefined",
                                    connectionId))
     ELSE IF i = 0
       THEN Outcome(conns, box, 0, NotFoundResponse(conns, connectionId))
     ELSE IF hasCallback /\ throws
       THEN Outcome(conns, box, i,
                    FailureResponse("handler failure", connectionId))
     ELSE Outcome(conns,
                  IF hasCallback THEN Append(box, MessageContent(body))
                  ELSE box,
                  i, AckResponse(connectionId))

\* throws: whether the registered callback throws on this message
handleMessage(conns, box, hasCallback, body, connectionIdArg, params, throws) ==
  LET connectionId == IF Truthy(connectionIdArg) THEN connectionIdArg
                      ELSE getConnectionId(params)
      i == Find(conns, connectionId)
  IN IF ~Truthy(connectionId) THEN Outcome(conns, box, 0, MissingIdResponse)
     ELSE IF i = 0
       THEN Outcome(conns, box, 0, NotFoundResponse(conns, connectionId))
     ELSE IF body.t = "undefined"
       THEN Outcome(conns, box, i,
                    FailureResponse("Cannot read properties of undefined",
                                    connectionId))
     ELSE IF hasCallback /\ throws
       THEN Outcome(conns, box, i,
                    FailureResponse("handler failure", connectionId))
     ELSE Outcome(conns,
                  IF hasCallback THEN Append(box, MessageContent(body))
                  ELSE box,
                  i, AckResponse(connectionId))

\* faulty variant: the method is not looked at
RouteAnyMethod(params) ==
  IF params.path.base = "/sse" THEN "sse"
  ELSE IF params.path.base = "/messages" THEN "messages"
  ELSE IF params.path.base = "/poll" THEN "poll"
  ELSE "help"

\* the routing of main, after initServer
Route(params) ==
  IF params.path.base = "/sse" THEN "sse"
  ELSE IF params.path.base = "/messages" /\ params.method = "POST"
    THEN "messages"
  ELSE IF params.path.base = "/poll" /\ params.method = "GET" THEN "poll"
  ELSE "help"

Routed(conns, box, hasCallback, clock, params, throws) ==
  LET connectionId == getConnectionId(params)
  IN CASE Route(params) = "sse" -> handleSSE(conns, box, clock)
       [] Route(params) = "messages" ->
            handleMessage(conns, box, hasCallback, params.body,
                          connectionId, params, throws)
       [] Route(params) = "poll" ->
            getSSEMessages(conns, box, connectionId, params)
       [] OTHER -> Outcome(conns, box, 0, HelpResponse(conns, connectionId))

(* ------------------------- reading a wire body ------------------------ *)
\* the value of the first line of block with the given field, Absent if none
RECURSIVE FieldFrom(_, _, _)
FieldFrom(block, field, i) ==
  IF i > Len(block) THEN Absent
  ELSE IF block[i].field = field THEN block[i].value
  ELSE FieldFrom(block, field, i + 1)

Field(block, field) == FieldFrom(block, field, 1)

\* the blocks of lines of a body, each ended by a blank line
RECURSIVE BlocksFrom(_, _, _)
BlocksFrom(lines, i, block) ==
  IF i > Len(lines) THEN (IF block = <<>> THEN <<>> ELSE <<block>>)
  ELSE IF lines[i] = BlankLine
    THEN <<block>> \o BlocksFrom(lines, i + 1, <<>>)
  ELSE BlocksFrom(lines, i + 1, Append(block, lines[i]))

Blocks(lines) == BlocksFrom(lines, 1, <<>>)

\* the events of a body: its blocks that carry an event line
Events(lines) == SelectSeq(Blocks(lines), LAMBDA b : Field(b, "event") # Absent)

EventOf(block) ==
  [id |-> Field(block, "id"), event |-> Field(block, "event"),
   data |-> Field(block, "data")]

\* the message events of a body, as [id, event, data]
MessageEvents(lines) ==
  LET ev == SelectSeq(Events(lines),
                      LAMBDA b : Field(b, "event") = "message")
  IN [k \in 1..Len(ev) |-> EventOf(ev[k])]

(* ------------------------------ inputs -------------------------------- *)
\* the ids a request can carry: those Date.now() can have produced
ReqIds == { NumberToString(t) : t \in 0..MaxClock }

Methods == {"GET", "POST"}

Bases == {"/sse", "/messages", "/poll", "/"}

Object(type, name, message, connectionId) ==
  [JS("object", Absent) EXCEPT !.type = type, !.name = name,
                               !.message = message,
                               !.connectionId = connectionId]

ToolCall == Object("tool_call", "get-alerts", Absent, Absent)

Wrapper == Object(Absent, Absent, "inner", Absent)

\* the messages the protocol handler hands to send
OutMessages == {Str("a"), Str("b"), Circular}

IdSearch(id) == << [name |-> "connectionId", value |-> id] >>

\* the requests of the documented flow (Readme, "Connection Flow"): open,
\* deliver a tool call with the id in the path, poll with the id in the path
FlowRequests ==
       { Params("GET", "/sse", <<>>, FALSE, Absent, Undefined) }
  \cup { Params("GET", "/poll", IdSearch(id), FALSE, Absent, Undefined) :
           id \in ReqIds }
  \cup { Params("POST", "/messages", IdSearch(id), FALSE, Absent, ToolCall) :
           id \in ReqIds }

\* every request shape: each of the four id sources absent, empty or set
Searches ==
  {<<>>}
    \cup { << [name |-> "connectionId", value |-> v] >> :
             v \in ReqIds \cup {"", RawOne} }
    \cup { << [name |-> EncodedName, value |-> v] >> : v \in ReqIds }

Queries ==
  {<<FALSE, Absent>>, <<TRUE, Absent>>, <<TRUE, "">>}
    \cup { <<TRUE, id>> : id \in ReqIds }

Bodies ==
  {Undefined, Str("raw")}
    \cup { Object(tn[1], tn[2], msg, id) :
             tn \in {<<Absent, Absent>>, <<"", "get-alerts">>,
                    <<"tool_call", "get-alerts">>},
             msg \in {Absent, "", "inner"}, id \in ReqIds \cup {Absent} }

AllRequests ==
  { Params(m, b, s, q[1], q[2], body) :
      m \in Methods, b \in Bases, s \in Searches, q \in Queries,
      body \in Bodies }

(* ------------------------------- state -------------------------------- *)
\* throws: the registered callback throws on the message of this request
Op(name, params, connectionId, idx, message) ==
  [name |-> name, params |-> params, connectionId |-> connectionId,
   idx |-> idx, message |-> message, throws |-> FALSE]

\* the invocations of main that can overlap, and where each one is:
\* "idle" (not running), "connecting" (inside await initServer(), waiting for
\* server.connect), "routing" (initServer has returned)
Invocations == 1..(MaxWork - 1)

Invocation(at, params) == [at |-> at, params |-> params]

Idle == Invocation("idle", NoParams)

Init ==
  /\ connections = <<>>
  /\ messageQueue = <<>>
  /\ isConnected = FALSE
  /\ onMessageCallback = FALSE
  /\ serverInitialized = FALSE
  /\ now = 0
  /\ inbox = <<>>
  /\ emitted = <<>>
  /\ polled = <<>>
  /\ createdAt = <<>>
  /\ invocations = [i \in Invocations |-> Idle]
  /\ op = Op("init", NoParams, Absent, 0, Undefined)
  /\ resp = NoResponse

(* ------------------------------ transport ----------------------------- *)
\* faulty variant: the connected flag is not consulted
SendEffectUnguarded(conns, queue, connected, message) ==
  [connections |-> Broadcast(conns, message),
   messageQueue |-> Append(queue, message)]

\* FleekTransport.send: the registry and the queue after the call
SendEffect(conns, queue, connected, message) ==
  IF ~connected THEN [connections |-> conns, messageQueue |-> queue]
  ELSE [connections |-> Broadcast(conns, message),
        messageQueue |-> Append(queue, message)]

\* the protocol handler calls transport.send(message)
Send(message) ==
  /\ isConnected => CanGrow(connections, messageQueue, inbox)
  /\ LET after == SendEffect(connections, messageQueue, isConnected, message)
     IN /\ connections' = after.connections
        /\ messageQueue' = after.messageQueue
  /\ polled' = [i \in 1..Len(polled) |-> FALSE]
  /\ op' = Op("send", NoParams, Absent, 0, message)
  /\ UNCHANGED <<isConnected, onMessageCallback, serverInitialized, now,
                 inbox, emitted, createdAt, invocations, resp>>

\* the protocol handler is done with the oldest delivered message and sends
\* its answer
Handle(message) ==
  /\ inbox # <<>>
  /\ inbox' = Tail(inbox)
  /\ LET after == SendEffect(connections, messageQueue, isConnected, message)
     IN /\ connections' = after.connections
        /\ messageQueue' = after.messageQueue
  /\ polled' = [i \in 1..Len(polled) |-> FALSE]
  /\ op' = Op("send", NoParams, Absent, 0, message)
  /\ UNCHANGED <<isConnected, onMessageCallback, serverInitialized, now,
                 emitted, createdAt, invocations, resp>>

\* faulty variant: closing the transport forgets the sessions
CloseDropsSessions ==
  /\ isConnected' = FALSE
  /\ connections' = <<>>
  /\ emitted' = <<>>
  /\ polled' = <<>>
  /\ createdAt' = <<>>
  /\ op' = Op("close", NoParams, Absent, 0, Undefined)
  /\ UNCHANGED <<messageQueue, onMessageCallback, serverInitialized, now,
                 inbox, invocations, resp>>

\* FleekTransport.close
Close ==
  /\ isConnected' = FALSE
  /\ op' = Op("close", NoParams, Absent, 0, Undefined)
  /\ UNCHANGED <<connections, messageQueue, onMessageCallback,
                 serverInitialized, now, inbox, emitted, polled, createdAt,
                 invocations, resp>>

\* the clock behind Date.now() advances
Tick ==
  /\ now < MaxClock
  /\ now' = now + 1
  /\ op' = Op("tick", NoParams, Absent, 0, Undefined)
  /\ UNCHANGED <<connections, messageQueue, isConnected, onMessageCallback,
                 serverInitialized, inbox, emitted, polled, createdAt,
                 invocations, resp>>

(* -------------------------------- main -------------------------------- *)
\* initServer: connect is tried while serverInitialized is false; a connect
\* that succeeds has started the transport (FleekTransport.start) and may have
\* registered the inbound callback (FleekTransport.onMessage)
InitServer(initialized, connected, callback, ok, registers) ==
  IF initialized \/ ~ok
  THEN [serverInitialized |-> initialized, isConnected |-> connected,
        onMessageCallback |-> callback]
  ELSE [serverInitialized |-> TRUE, isConnected |-> TRUE,
        onMessageCallback |-> callback \/ registers]

Main(params, ok, registers, throws) ==
  \E started \in {InitServer(serverInitialized, isConnected,
                              onMessageCallback, ok, registers)} :
    \E out \in {Routed(connections, inbox, started.onMessageCallback, now,
                       params, throws)} :
      \E route \in {Route(params)} :
        /\ route = "sse" => CanGrow(connections, messageQueue, inbox)
        /\ out.inbox # inbox => CanGrow(connections, messageQueue, inbox)
        /\ serverInitialized' = started.serverInitialized
        /\ isConnected' = started.isConnected
        /\ onMessageCallback' = started.onMessageCallback
        /\ connections' = out.connections
        /\ inbox' = out.inbox
        /\ resp' = out.resp
        /\ emitted' =
             IF route = "sse" THEN Append(emitted, <<>>)
             ELSE IF route = "poll" /\ out.idx > 0
               THEN [emitted EXCEPT
                       ![out.idx] = @ \o MessageEvents(out.resp.lines)]
             ELSE emitted
        /\ polled' =
             IF route = "sse" THEN Append(polled, FALSE)
             ELSE IF route = "poll" /\ out.idx > 0
               THEN [polled EXCEPT ![out.idx] = TRUE]
             ELSE polled
        /\ createdAt' =
             IF route = "sse" THEN Append(createdAt, Len(messageQueue))
             ELSE createdAt
        /\ op' = [Op("main", params, getConnectionId(params), out.idx,
                     Undefined) EXCEPT !.throws = throws]
        /\ UNCHANGED <<messageQueue, now>>

\* connect is tried, and can fail or register the callback, only while
\* serverInitialized is false; the callback can throw only when it is
\* registered and a message is delivered
Request(requests) ==
  \E params \in requests :
    \E ok \in (IF serverInitialized THEN {TRUE} ELSE BOOLEAN) :
      \E registers \in (IF serverInitialized \/ ~ok THEN {FALSE}
                        ELSE BOOLEAN) :
        \E throws \in (IF Route(params) = "messages"
                          /\ (onMessageCallback \/ registers)
                       THEN BOOLEAN ELSE {FALSE}) :
          Main(params, ok, registers, throws) /\ UNCHANGED invocations

Next ==
  \/ Request(FlowRequests)
  \/ \E message \in OutMessages : Send(message)
  \/ \E message \in OutMessages : Handle(message)
  \/ Close
  \/ Tick

Spec == Init /\ [][Next]_vars

\* the router on every request shape: one request, served on a registry
\* that earlier /sse requests have filled, with nothing sent since or with
\* one message sent to all its sessions and not polled yet
OpenTicks ==
  { t \in UNION { [1..n -> 0..MaxClock] : n \in 0..(MaxWork - 1) } :
      \A i \in 1..Len(t), j \in 1..Len(t) : i < j => t[i] <= t[j] }

InitRoute ==
  /\ \E flags \in {<<FALSE, FALSE, FALSE>>, <<TRUE, TRUE, FALSE>>,
                    <<TRUE, TRUE, TRUE>>} :
       /\ serverInitialized = flags[1]
       /\ isConnected = flags[2]
       /\ onMessageCallback = flags[3]
  /\ messageQueue \in
       (IF isConnected THEN {<<>>, <<Str("a")>>} ELSE {<<>>})
  /\ \E t \in OpenTicks :
       /\ connections =
            SendEffect([i \in 1..Len(t) |->
                          SSEConnection(NewConnectionId(t[i]))],
                       <<>>, messageQueue # <<>>, Str("a")).connections
       /\ now \in { c \in 0..MaxClock : \A i \in 1..Len(t) : t[i] <= c }
  /\ inbox = <<>>
  /\ emitted = [i \in 1..Len(connections) |-> <<>>]
  /\ polled = [i \in 1..Len(connections) |-> FALSE]
  /\ createdAt = [i \in 1..Len(connections) |-> 0]
  /\ invocations = [i \in Invocations |-> Idle]
  /\ op = Op("init", NoParams, Absent, 0, Undefined)
  /\ resp = NoResponse

NextRoute == op.name = "init" /\ Request(AllRequests)

SpecRoute == InitRoute /\ [][NextRoute]_vars

(* ------------------------ overlapping invocations --------------------- *)
\* main is an async function: an invocation can be suspended at
\* await server.connect(transport), and other invocations run meanwhile
ConcRequests ==
  { Params("GET", "/sse", <<>>, FALSE, Absent, Undefined),
    Params("GET", "/poll", IdSearch("0"), FALSE, Absent, Undefined),
    Params("POST", "/messages", IdSearch("0"), FALSE, Absent, ToolCall) }

InFlight == Cardinality({ i \in Invocations : invocations[i].at # "idle" })

\* main is called: logRequest, then initServer tests serverInitialized and,
\* when it is false, calls server.connect(transport) and is suspended
Enter(i, params) ==
  /\ invocations[i].at = "idle"
  /\ \A j \in Invocations : j < i => invocations[j].at # "idle"
  /\ Len(connections) + Len(messageQueue) + Len(inbox) + InFlight < MaxWork
  /\ invocations' =
       [invocations EXCEPT
          ![i] = Invocation(IF serverInitialized THEN "routing"
                            ELSE "connecting", params)]
  /\ op' = Op("enter", params, Absent, 0, Undefined)
  /\ UNCHANGED <<connections, messageQueue, isConnected, onMessageCallback,
                 serverInitialized, now, inbox, emitted, polled, createdAt,
                 resp>>

\* the connect call of a suspended invocation settles: on success
\* serverInitialized is set, whatever another invocation has set it to
\* meanwhile; on failure the error is logged; in both cases main goes on
ConnectDone(i, ok, registers) ==
  /\ invocations[i].at = "connecting"
  /\ \E started \in {InitServer(~ok /\ serverInitialized, isConnected,
                                onMessageCallback, ok, registers)} :
       /\ serverInitialized' = started.serverInitialized
       /\ isConnected' = started.isConnected
       /\ onMessageCallback' = started.onMessageCallback
  /\ invocations' =
       [invocations EXCEPT ![i] = Invocation("routing", @.params)]
  /\ op' = Op("connect", invocations[i].params, Absent, 0, Undefined)
  /\ UNCHANGED <<connections, messageQueue, now, inbox, emitted, polled,
                 createdAt, resp>>

\* faulty variant: the router goes on only when the handler is done with
\* every message delivered so far
RespondAwaitsHandler(i, throws) ==
  /\ invocations[i].at = "routing"
  /\ inbox = <<>>
  /\ Main(invocations[i].params, FALSE, FALSE, throws)
  /\ invocations' = [invocations EXCEPT ![i] = Idle]

\* the rest of main after initServer: the request is routed and answered
Respond(i, throws) ==
  /\ invocations[i].at = "routing"
  /\ Main(invocations[i].params, FALSE, FALSE, throws)
  /\ invocations' = [invocations EXCEPT ![i] = Idle]

NextConc ==
  \/ \E i \in Invocations, params \in ConcRequests : Enter(i, params)
  \/ \E i \in Invocations, ok \in BOOLEAN, registers \in BOOLEAN :
       (registers => ok) /\ ConnectDone(i, ok, registers)
  \/ \E i \in Invocations :
       \E throws \in (IF Route(invocations[i].params) = "messages"
                         /\ onMessageCallback
                      THEN BOOLEAN ELSE {FALSE}) : Respond(i, throws)
  \/ \E message \in OutMessages : Handle(message)

SpecConc == Init /\ [][NextConc]_vars

\* the event loop resumes every invocation whose await has settled, and the
\* connect call settles; nothing makes the protocol handler answer
Fairness ==
  \A i \in Invocations :
    /\ WF_vars(\E ok \in BOOLEAN, registers \in BOOLEAN :
                 (registers => ok) /\ ConnectDone(i, ok, registers))
    /\ WF_vars(\E throws \in BOOLEAN : Respond(i, throws))

SpecConcFair == SpecConc /\ Fairness

(* ------------------------- reading the history ------------------------ *)
\* op records a request that main routed to getSSEMessages / handleMessage
IsPoll(o) ==
  o.name = "main" /\ o.params.method = "GET" /\ o.params.path.base = "/poll"

IsDeliver(o) ==
  o.name = "main" /\ o.params.method = "POST"
    /\ o.params.path.base = "/messages"

IsOpen(o) == o.name = "main" /\ o.params.path.base = "/sse"

\* the names of the fields of the lines of a block, in order
FieldNames(block) == [k \in 1..Len(block) |-> block[k].field]

\* a body ends with a blank line
EndsBlank(lines) == lines # <<>> => lines[Len(lines)] = BlankLine

(* -------------------------------- C1 ---------------------------------- *)
\* C1: after any sequence of /sse requests, also several within one tick of
\* the clock, all sessions of the registry have pairwise distinct ids.
C1_DistinctIds ==
  \A i \in 1..Len(connections), j \in 1..Len(connections) :
    i # j => connections[i].id # connections[j].id

(* -------------------------------- C2 ---------------------------------- *)
\* C2: a poll of a session whose lastEventId is k and whose buffer holds
\* m1..mn returns exactly n message events, in that order, the i-th with
\* payload mi and event id k+i, and leaves lastEventId = k+n.
C2_PollFramesBufferInOrder ==
  [][ \A i \in 1..Len(connections) :
        (IsPoll(op') /\ op'.idx = i) =>
          LET k  == connections[i].lastEventId
              m  == connections[i].messages
              ev == MessageEvents(resp'.lines)
          IN /\ Len(ev) = Len(m)
             /\ \A j \in 1..Len(m) :
                  ev[j].data = m[j] /\ ev[j].id = ToString(k + j)
             /\ connections'[i].lastEventId = k + Len(m) ]_vars

\* a poll has returned two message events, the second with id 2
C2_Witness ==
  /\ IsPoll(op) /\ op.idx > 0
  /\ Len(MessageEvents(resp.lines)) = 2
  /\ MessageEvents(resp.lines)[1].data # MessageEvents(resp.lines)[2].data
  /\ connections[op.idx].lastEventId = 2

(* -------------------------------- C3 ---------------------------------- *)
\* C3: draining is destructive and exactly-once: a poll returns all pending
\* payloads and empties the buffer, and a poll that follows a poll of the same
\* session with no send in between returns only a ping frame, re-offering
\* nothing.
C3_DrainExactlyOnce ==
  [][ \A i \in 1..Len(connections) :
        (IsPoll(op') /\ op'.idx = i) =>
          LET ev == MessageEvents(resp'.lines)
          IN /\ [j \in 1..Len(ev) |-> ev[j].data] = connections[i].messages
             /\ connections'[i].messages = <<>>
             /\ polled[i] =>
                  /\ ev = <<>>
                  /\ Len(Events(resp'.lines)) = 1
                  /\ Field(Events(resp'.lines)[1], "event") = "ping" ]_vars

\* a session that has been delivered a message is polled again, with no send
\* since, and gets the ping frame
C3_Witness ==
  /\ IsPoll(op) /\ op.idx > 0
  /\ polled[op.idx]
  /\ emitted[op.idx] # <<>>
  /\ Len(emitted[op.idx]) = Len(messageQueue)
  /\ Field(Events(resp.lines)[1], "event") = "ping"

(* -------------------------------- C4 ---------------------------------- *)
\* C4: over all the polls of a session the ids of its message events are
\* 1, 2, 3, ... with no gap, repeat or reset, and lastEventId never
\* decreases.
C4_EventIdsContinuous ==
  [][ \A i \in 1..Len(connections) :
        /\ \A j \in 1..Len(emitted'[i]) : emitted'[i][j].id = ToString(j)
        /\ connections'[i].lastEventId >= connections[i].lastEventId ]_vars

\* a session has been delivered two messages by two different polls
C4_Witness ==
  /\ IsPoll(op) /\ op.idx > 0
  /\ Len(emitted[op.idx]) = 2
  /\ Len(MessageEvents(resp.lines)) = 1
  /\ MessageEvents(resp.lines)[1].id = "2"

(* -------------------------------- C5 ---------------------------------- *)
\* C5: a GET /poll or POST /messages that carries a non-empty session id
\* matching no session gets a 404, never a 500 or a success, whatever its
\* body is.
C5_UnknownIdIs404 ==
  ( /\ IsPoll(op) \/ IsDeliver(op)
    /\ Truthy(op.connectionId)
    /\ \A i \in 1..Len(connections) : connections[i].id # op.connectionId )
  => /\ resp.status = 404
     /\ resp.json.error = "Connection not found"

\* a POST /messages without a body, for an id no open session has
C5_Witness ==
  /\ IsDeliver(op)
  /\ op.params.body = Undefined
  /\ Truthy(op.connectionId)
  /\ connections # <<>>
  /\ \A i \in 1..Len(connections) : connections[i].id # op.connectionId
  /\ resp.status = 404

(* -------------------------------- C6 ---------------------------------- *)
\* the values of the four id sources of a request, in the order (a) - (d)
Sources(params) ==
  << PathMatch(params.path),
     IF params.query.present THEN params.query.connectionId ELSE Absent,
     IF params.body.t = "object" THEN params.body.connectionId ELSE Absent,
     SearchParam(params.path) >>

\* C6: a GET /poll or POST /messages none of whose four id sources yields a
\* non-empty id gets a 400, never a 404, 200 or 500.
C6_MissingIdIs400 ==
  ( /\ IsPoll(op) \/ IsDeliver(op)
    /\ \A k \in 1..4 : Sources(op.params)[k] \in {Absent, ""} )
  => /\ resp.status = 400
     /\ resp.json.error = "Missing connectionId parameter"

\* a POST /messages with an empty id in the query map and a structured body
\* without id, while a session is open
C6_Witness ==
  /\ IsDeliver(op)
  /\ op.params.query.connectionId = ""
  /\ op.params.body.t = "object"
  /\ \A k \in 1..4 : Sources(op.params)[k] \in {Absent, ""}
  /\ connections # <<>>
  /\ resp.status = 400

(* -------------------------------- C7 ---------------------------------- *)
\* C7: getConnectionId returns the value of the first of the four sources
\* that is non-empty, and no id only when none is; a query-map id wins over
\* a body id, and a body id alone is returned.
C7_ExtractionOrder ==
  op.name = "main" =>
    LET src == Sources(op.params)
        nonEmpty == SelectSeq(src, LAMBDA v : v \notin {Absent, ""})
    IN /\ nonEmpty = <<>> => op.connectionId = Absent
       /\ nonEmpty # <<>> => op.connectionId = nonEmpty[1]
       /\ (op.params.path.search = <<>>
             /\ src[2] \notin {Absent, ""} /\ src[3] \notin {Absent, ""})
            => op.connectionId = src[2]
       /\ (op.params.path.search = <<>>
             /\ src[2] \in {Absent, ""} /\ src[3] \notin {Absent, ""})
            => op.connectionId = src[3]

\* a request with id "0" in the query map and id "1" in the body
C7_Witness ==
  /\ op.name = "main"
  /\ op.params.path.search = <<>>
  /\ op.params.query.connectionId = "0"
  /\ op.params.body.connectionId = "1"
  /\ op.connectionId = "0"

(* -------------------------------- C8 ---------------------------------- *)
\* C8: a send while the transport is connected appends the serialized
\* message exactly once at the tail of the buffer of every live session, and
\* changes no lastEventId.
C8_BroadcastAppends ==
  [][ (op'.name = "send" /\ isConnected) =>
        /\ Len(connections') = Len(connections)
        /\ \A i \in 1..Len(connections) :
             /\ connections'[i].messages =
                  Append(connections[i].messages, Stringify(op'.message))
             /\ connections'[i].lastEventId = connections[i].lastEventId
             /\ connections'[i].id = connections[i].id ]_vars

\* C8 (amended): a send, while the transport is connected, of a message that
\* JSON.stringify can serialize appends the serialized message exactly once
\* at the tail of the buffer of every live session; a message that cannot be
\* serialized is appended to no buffer; no lastEventId changes.
C8_SerializableBroadcastAppends ==
  [][ (op'.name = "send" /\ isConnected) =>
        /\ Len(connections') = Len(connections)
        /\ \A i \in 1..Len(connections) :
             /\ connections'[i].messages =
                  IF op'.message.t = "circular" THEN connections[i].messages
                  ELSE Append(connections[i].messages,
                              Stringify(op'.message))
             /\ connections'[i].lastEventId = connections[i].lastEventId
             /\ connections'[i].id = connections[i].id ]_vars

\* two sessions are open and a connected send has put its message at the
\* tail of both buffers
C8_Witness ==
  /\ op.name = "send" /\ isConnected
  /\ op.message.t = "string"
  /\ Len(connections) = 2
  /\ \A i \in 1..2 :
       /\ connections[i].messages # <<>>
       /\ connections[i].messages[Len(connections[i].messages)]
            = Stringify(op.message)

(* -------------------------------- C9 ---------------------------------- *)
\* C9: a send while the transport is not connected is dropped: buffers,
\* lastEventIds and the message queue stay as they are.
C9_DisconnectedSendDropped ==
  [][ (op'.name = "send" /\ ~isConnected) =>
        /\ connections' = connections
        /\ messageQueue' = messageQueue ]_vars

\* a send after close, with a session open
C9_Witness ==
  /\ op.name = "send"
  /\ serverInitialized /\ ~isConnected
  /\ connections # <<>>
  /\ op.message.t = "string"

Live(conns, id) == \E i \in 1..Len(conns) : conns[i].id = id

C12_DeliverAcknowledged ==
  (IsDeliver(op) /\ Live(connections, op.connectionId) /\ ~op.throws)
  => /\ resp.status = 200
     /\ resp.json.kind = "received"
     /\ resp.json.connectionId = op.connectionId
     /\ onMessageCallback => inbox # <<>>

C14_PollAfterAckHasMessage ==
  [][ ( /\ IsDeliver(op) /\ resp.status = 200 /\ op.idx > 0
        /\ op.params.body.type = "tool_call"
        /\ IsPoll(op') /\ op'.idx = op.idx )
      => MessageEvents(resp'.lines) # <<>> ]_vars

(* -------------------------------- C15 --------------------------------- *)
\* C15: a request that is not /sse, not POST /messages and not GET /poll
\* gets the 200 help payload, leaves the registry as it is, and reports the
\* number of sessions of the registry.
C15_FallbackIsHelp ==
  [][ ( /\ op'.name = "main"
        /\ op'.params.path.base # "/sse"
        /\ ~(op'.params.path.base = "/messages" /\ op'.params.method = "POST")
        /\ ~(op'.params.path.base = "/poll" /\ op'.params.method = "GET") )
      => /\ resp'.status = 200
         /\ resp'.json.kind = "help"
         /\ resp'.json.activeConnections = Len(connections)
         /\ connections' = connections
         /\ inbox' = inbox ]_vars

\* a POST to /poll with the id of a session that has a pending message
C15_Witness ==
  /\ op.name = "main"
  /\ op.params.method = "POST" /\ op.params.path.base = "/poll"
  /\ Live(connections, op.connectionId)
  /\ connections[1].messages # <<>>
  /\ resp.json.kind = "help"
  /\ resp.json.activeConnections = Len(connections)

C17_ForwardedByPresence ==
  (IsDeliver(op) /\ resp.status = 200 /\ onMessageCallback)
  => inbox =
       << IF op.params.body.type # Absent /\ op.params.body.name # Absent
          THEN op.params.body
          ELSE IF op.params.body.message # Absent
            THEN Str(op.params.body.message)
          ELSE op.params.body >>

(* -------------------------------- C20 --------------------------------- *)
\* the data of the message events the polls of session i have returned,
\* followed by the buffer of session i
Delivered(i) ==
  [j \in 1..Len(emitted[i]) |-> emitted[i][j].data] \o connections[i].messages

\* the messages sent, while the transport was connected, since session i
\* was created
SentSince(i) == SubSeq(messageQueue, createdAt[i] + 1, Len(messageQueue))

\* C20: for every session, the payloads returned by all polls of the
\* session followed by the session's buffer are, in send order, exactly
\* the messages sent while connected since the session was created.
C20_NoLossDuplicationReordering ==
  \A i \in 1..Len(connections) :
    Delivered(i) =
      [j \in 1..Len(SentSince(i)) |-> Stringify(SentSince(i)[j])]

\* C20 (amended): for every session, the payloads returned by all polls of
\* the session followed by the session's buffer are, in send order, exactly
\* the messages that JSON.stringify can serialize among those sent while
\* connected since the session was created; a message that cannot be
\* serialized reaches no session.
C20_NoLossOfSerializable ==
  \A i \in 1..Len(connections) :
    Delivered(i) =
      LET sent == SelectSeq(SentSince(i), CanStringify)
      IN [j \in 1..Len(sent) |-> Stringify(sent[j])]

\* a session opened after a first send has got the second message, and
\* only that one, from a poll
C20_Witness ==
  /\ IsPoll(op) /\ op.idx = 1
  /\ createdAt[1] = 1
  /\ Len(messageQueue) = 2
  /\ Len(emitted[1]) = 1
  /\ emitted[1][1].data = Stringify(messageQueue[2])
  /\ connections[1].messages = <<>>

(* -------------------------------- C18 --------------------------------- *)
\* the invocations suspended in a connect call that has not settled
Connecting == { i \in Invocations : invocations[i].at = "connecting" }

\* C18: the protocol handler is connected only once: once an invocation has
\* started server.connect(transport) and the call has not failed, no other
\* invocation starts a second connect call. So at most one connect call is
\* in progress, and none once one has succeeded.
C18_ConnectOnlyOnce ==
  Cardinality(Connecting) + (IF serverInitialized THEN 1 ELSE 0) <= 1

(* -------------------------------- C19 --------------------------------- *)
\* C19: every invocation of main eventually returns a response, also while
\* the protocol handler is still waiting for the upstream provider.
C19_EveryInvocationReturns ==
  \A i \in Invocations :
    (invocations[i].at # "idle") ~> (invocations[i].at = "idle")

\* a delivery has been acknowledged and main has returned while the handler
\* has not answered an earlier delivery nor this one
C19_Witness ==
  /\ IsDeliver(op) /\ resp.status = 200
  /\ Len(inbox) = 2
  /\ \A i \in Invocations : invocations[i].at = "idle"

(* -------------------------------- C21 --------------------------------- *)
\* C21: a GET /poll or POST /messages that is answered with 400 or 404
\* leaves the registry as it was: no session is created, no buffer is
\* drained or appended to, no lastEventId advances, and no message reaches
\* the protocol handler.
C21_RejectionLeavesRegistry ==
  [][ ( /\ IsPoll(op') \/ IsDeliver(op')
        /\ resp'.status \in {400, 404} )
      => /\ connections' = connections
         /\ messageQueue' = messageQueue
         /\ inbox' = inbox ]_vars

\* a structured call for an unknown session has been answered with 404
\* while the callback is registered and a session holds a pending message
C21_Witness ==
  /\ IsDeliver(op) /\ resp.status = 404
  /\ op.params.body.type = "tool_call"
  /\ onMessageCallback
  /\ Len(connections) >= 1
  /\ connections[1].messages # <<>>
  /\ inbox = <<>>

====
